---- MODULE Spec2Model ----
(***************************************************************************)
(* The Rcpp kernels of src/C++: cummaxC, cumminC, cumprodC, cumsumC, the   *)
(* three diffC variants, rangeC, na_rangeC and varC.  One call of one      *)
(* kernel is a small state machine: an entry step (the statements before   *)
(* the loop), one step per loop iteration and a return step.  A double is  *)
(* an exact rational or the missing marker NA_REAL.  An access outside a   *)
(* vector is undefined behaviour: it yields any value or ends the process. *)
(***************************************************************************)
EXTENDS Integers, Sequences, FiniteSets, TLC

VARIABLES kernel, x, lag, na_rm, pc, i, out, omin, omax, mx, outd,
          ret, warnings, oobRead, oobWrite, negAlloc

vars == <<kernel, x, lag, na_rm, pc, i, out, omin, omax, mx, outd,
          ret, warnings, oobRead, oobWrite, negAlloc>>

(* ------------------------------ bounds --------------------------------- *)
MaxLen == 3
MaxVal == 1
MaxLag == 4
MaxNegLag == 1

(* ------------------------------ doubles -------------------------------- *)
RECURSIVE GCD(_, _)
GCD(a, b) == IF b = 0 THEN a ELSE GCD(b, a % b)

Abs(a) == IF a < 0 THEN -a ELSE a

Norm(p, q) ==
  LET g == GCD(Abs(p), q)
  IN  [na |-> FALSE, num |-> p \div g, den |-> q \div g]

Num(k) == [na |-> FALSE, num |-> k, den |-> 1]

NA_REAL == [na |-> TRUE, num |-> 0, den |-> 1]

is_na(d) == d.na

DAdd(a, b) ==
  IF a.na \/ b.na THEN NA_REAL
  ELSE Norm(a.num * b.den + b.num * a.den, a.den * b.den)

DSub(a, b) ==
  IF a.na \/ b.na THEN NA_REAL
  ELSE Norm(a.num * b.den - b.num * a.den, a.den * b.den)

DMul(a, b) ==
  IF a.na \/ b.na THEN NA_REAL
  ELSE Norm(a.num * b.num, a.den * b.den)

DDivInt(a, k) ==
  IF a.na THEN NA_REAL ELSE Norm(a.num, a.den * k)

DLess(a, b) == ~a.na /\ ~b.na /\ a.num * b.den < b.num * a.den

StdMax(a, b) == IF DLess(a, b) THEN b ELSE a

StdMin(a, b) == IF DLess(b, a) THEN b ELSE a

Pow2(a) == DMul(a, a)

Doubles == {NA_REAL} \cup {Num(k) : k \in (-MaxVal)..MaxVal}

(* ------------------------------ vectors -------------------------------- *)
NumericVector(n) == [k \in 1..n |-> Num(0)]

InBounds(s, k) == 0 <= k /\ k < Len(s)

Load(s, k) == IF InBounds(s, k) THEN {s[k + 1]} ELSE Doubles

Store(s, k, v) == IF InBounds(s, k) THEN [s EXCEPT ![k + 1] = v] ELSE s

(* ------------------------------ outcomes ------------------------------- *)
InvalidArgument == "lag must be less than length(x)"
EmptyInput == "length(x) must be greater than 0"
NegativeLength == "negative length vectors are not allowed"

Ret(k, v, m) == [kind |-> k, value |-> v, msg |-> m]

NoRet == Ret("none", <<>>, "")

Returns(v) == /\ ret' = Ret("vector", v, "")
              /\ pc' = "done"

ReturnsDouble(d) == /\ ret' = Ret("double", <<d>>, "")
                    /\ pc' = "done"

stop(m) == /\ ret' = Ret("stop", <<>>, m)
           /\ pc' = "done"

Segfault == /\ ret' = Ret("crash", <<>>, "")
            /\ pc' = "done"

Access(badR, badW) == /\ oobRead' = (oobRead \/ badR)
                      /\ oobWrite' = (oobWrite \/ badW)

warning == warnings' = warnings + 1

(* ------------------------------ the calls ------------------------------ *)
Cumulative == {"cummaxC", "cumminC", "cumprodC", "cumsumC"}
Kernels == Cumulative \cup {"diffC_lagOne", "diffC_lagN", "diffC_na",
                            "rangeC", "na_rangeC", "varC"}
HasLag == {"diffC_lagN", "diffC_na"}
HasNaRm == {"cumsumC", "diffC_na", "na_rangeC"}

Inputs == UNION {[1..n -> Doubles] : n \in 0..MaxLen}

Init ==
  /\ kernel \in Kernels
  /\ x \in Inputs
  /\ lag \in (IF kernel \in HasLag THEN (-MaxNegLag)..MaxLag ELSE {1})
  /\ na_rm \in (IF kernel \in HasNaRm THEN BOOLEAN ELSE {FALSE})
  /\ pc = "entry"
  /\ i = 0
  /\ out = <<>>
  /\ omin = Num(0)
  /\ omax = Num(0)
  /\ mx = Num(0)
  /\ outd = Num(0)
  /\ ret = NoRet
  /\ warnings = 0
  /\ oobRead = FALSE
  /\ oobWrite = FALSE
  /\ negAlloc = FALSE

(* --------------------- cummaxC, cumminC, cumprodC ---------------------- *)
\* n = x.size(); NumericVector out(n); out[0] = x[0];
CumEntry(name) ==
  /\ pc = "entry" /\ kernel = name
  /\ LET o == NumericVector(Len(x))
     IN  /\ Access(~InBounds(x, 0), ~InBounds(o, 0))
         /\ \/ /\ \E v \in Load(x, 0) : out' = Store(o, 0, v)
               /\ i' = 1
               /\ pc' = "loop"
               /\ UNCHANGED ret
            \/ /\ ~InBounds(x, 0) \/ ~InBounds(o, 0)
               /\ Segfault
               /\ UNCHANGED <<i, out>>
  /\ UNCHANGED <<kernel, x, lag, na_rm, omin, omax, mx, outd, warnings, negAlloc>>

\* return out;
CumReturn(name) ==
  /\ pc = "loop" /\ kernel = name
  /\ ~(i < Len(x))
  /\ Returns(out)
  /\ UNCHANGED <<kernel, x, lag, na_rm, i, out, omin, omax, mx, outd,
                 warnings, oobRead, oobWrite, negAlloc>>

cummaxC_body(o, xs, k) == Store(o, k, StdMax(o[k], xs[k + 1]))

cumminC_body(o, xs, k) == Store(o, k, StdMin(o[k], xs[k + 1]))

\* slip: combines with x[i - 1] instead of x[i]
cumprodC_body_prev(o, xs, k) == Store(o, k, DMul(o[k], xs[k]))

cumprodC_body(o, xs, k) == Store(o, k, DMul(o[k], xs[k + 1]))

cummaxC_entry == CumEntry("cummaxC")

cummaxC_loop ==
  /\ pc = "loop" /\ kernel = "cummaxC"
  /\ i < Len(x)
  /\ out' = cummaxC_body(out, x, i)
  /\ i' = i + 1
  /\ UNCHANGED <<kernel, x, lag, na_rm, pc, omin, omax, mx, outd, ret,
                 warnings, oobRead, oobWrite, negAlloc>>

cummaxC_return == CumReturn("cummaxC")

cumminC_entry == CumEntry("cumminC")

cumminC_loop ==
  /\ pc = "loop" /\ kernel = "cumminC"
  /\ i < Len(x)
  /\ out' = cumminC_body(out, x, i)
  /\ i' = i + 1
  /\ UNCHANGED <<kernel, x, lag, na_rm, pc, omin, omax, mx, outd, ret,
                 warnings, oobRead, oobWrite, negAlloc>>

cumminC_return == CumReturn("cumminC")

cumprodC_entry == CumEntry("cumprodC")

cumprodC_loop ==
  /\ pc = "loop" /\ kernel = "cumprodC"
  /\ i < Len(x)
  /\ out' = cumprodC_body(out, x, i)
  /\ i' = i + 1
  /\ UNCHANGED <<kernel, x, lag, na_rm, pc, omin, omax, mx, outd, ret,
                 warnings, oobRead, oobWrite, negAlloc>>

cumprodC_return == CumReturn("cumprodC")

(* ------------------------------ cumsumC -------------------------------- *)
cumsumC_entry == CumEntry("cumsumC")

\* the skip branch is taken iff na_rm == true && is_na(x[i])
cumsumC_skips(xs, k, rm) == rm /\ is_na(xs[k + 1])

cumsumC_loop ==
  /\ pc = "loop" /\ kernel = "cumsumC"
  /\ i < Len(x)
  /\ IF cumsumC_skips(x, i, na_rm)
       THEN /\ out' = Store(out, i, NA_REAL)
            /\ warning
       ELSE /\ out' = Store(out, i, DAdd(out[i], x[i + 1]))
            /\ UNCHANGED warnings
  /\ i' = i + 1
  /\ UNCHANGED <<kernel, x, lag, na_rm, pc, omin, omax, mx, outd, ret,
                 oobRead, oobWrite, negAlloc>>

cumsumC_return == CumReturn("cumsumC")

CumNext ==
  \/ cummaxC_entry \/ cummaxC_loop \/ cummaxC_return
  \/ cumminC_entry \/ cumminC_loop \/ cumminC_return
  \/ cumprodC_entry \/ cumprodC_loop \/ cumprodC_return
  \/ cumsumC_entry \/ cumsumC_loop \/ cumsumC_return

(* --------------------------- diffC (lag one) --------------------------- *)
\* n = x.size(); NumericVector out(n - 1);
diffC_lagOne_entry ==
  /\ pc = "entry" /\ kernel = "diffC_lagOne"
  /\ LET n == Len(x)
     IN  IF n - 1 < 0
           THEN /\ negAlloc' = TRUE
                /\ ret' = Ret("Rerror", <<>>, NegativeLength)
                /\ pc' = "done"
                /\ UNCHANGED <<i, out>>
           ELSE /\ out' = NumericVector(n - 1)
                /\ i' = 1
                /\ pc' = "loop"
                /\ UNCHANGED <<ret, negAlloc>>
  /\ UNCHANGED <<kernel, x, lag, na_rm, omin, omax, mx, outd, warnings,
                 oobRead, oobWrite>>

\* slip: operands of the subtraction exchanged
diffC_assign_swapped(o, k, lg, a, b) == Store(o, k - lg, DSub(b, a))

\* out[i - lag] = x[i] - x[i - lag], one iteration; a is x[i], b is x[i - lag]
diffC_assign(o, k, lg, a, b) == Store(o, k - lg, DSub(a, b))

\* 1 <= i < n here, so x[i], x[i - 1] and out[i - 1] are inside the vectors
diffC_lagOne_loop ==
  /\ pc = "loop" /\ kernel = "diffC_lagOne"
  /\ i < Len(x)
  /\ Access(~InBounds(x, i) \/ ~InBounds(x, i - 1), ~InBounds(out, i - 1))
  /\ out' = diffC_assign(out, i, 1, x[i + 1], x[i])
  /\ i' = i + 1
  /\ UNCHANGED <<kernel, x, lag, na_rm, pc, omin, omax, mx, outd, ret,
                 warnings, negAlloc>>

diffC_lagOne_return ==
  /\ pc = "loop" /\ kernel = "diffC_lagOne"
  /\ ~(i < Len(x))
  /\ Returns(out)
  /\ UNCHANGED <<kernel, x, lag, na_rm, i, out, omin, omax, mx, outd,
                 warnings, oobRead, oobWrite, negAlloc>>

(* ------------------- diffC (lag n), diffC (lag n, na_rm) ---------------- *)
\* if (lag >= n) stop(...)
diffC_rejects(n, lg) == lg >= n

\* n = x.size(); if (lag >= n) stop(...); NumericVector out(n - lag);
\* past the check n - lag >= 1, so the requested length is positive
DiffEntry(name) ==
  /\ pc = "entry" /\ kernel = name
  /\ LET n == Len(x)
     IN  IF diffC_rejects(n, lag)
           THEN /\ stop(InvalidArgument)
                /\ UNCHANGED <<i, out>>
           ELSE /\ out' = NumericVector(n - lag)
                /\ i' = lag
                /\ pc' = "loop"
                /\ UNCHANGED ret
  /\ UNCHANGED <<kernel, x, lag, na_rm, omin, omax, mx, outd, warnings,
                 oobRead, oobWrite, negAlloc>>

DiffReturn(name) ==
  /\ pc = "loop" /\ kernel = name
  /\ ~(i < Len(x))
  /\ Returns(out)
  /\ UNCHANGED <<kernel, x, lag, na_rm, i, out, omin, omax, mx, outd,
                 warnings, oobRead, oobWrite, negAlloc>>

diffC_lagN_entry == DiffEntry("diffC_lagN")

diffC_lagN_loop ==
  /\ pc = "loop" /\ kernel = "diffC_lagN"
  /\ i < Len(x)
  /\ Access(~InBounds(x, i) \/ ~InBounds(x, i - lag), ~InBounds(out, i - lag))
  /\ \/ /\ \E a \in Load(x, i), b \in Load(x, i - lag) :
             out' = diffC_assign(out, i, lag, a, b)
        /\ i' = i + 1
        /\ UNCHANGED <<pc, ret>>
     \/ /\ ~InBounds(x, i) \/ ~InBounds(x, i - lag) \/ ~InBounds(out, i - lag)
        /\ Segfault
        /\ UNCHANGED <<i, out>>
  /\ UNCHANGED <<kernel, x, lag, na_rm, omin, omax, mx, outd, warnings, negAlloc>>

diffC_lagN_return == DiffReturn("diffC_lagN")

diffC_na_entry == DiffEntry("diffC_na")

\* the else branch reads x[i - lag]; the skip branch reads only x[i]
diffC_na_loop ==
  /\ pc = "loop" /\ kernel = "diffC_na"
  /\ i < Len(x)
  /\ \E a \in Load(x, i) :
       IF na_rm /\ is_na(a)
         THEN /\ Access(~InBounds(x, i), ~InBounds(out, i - lag))
              /\ \/ /\ out' = Store(out, i - lag, NA_REAL)
                    /\ warning
                    /\ i' = i + 1
                    /\ UNCHANGED <<pc, ret>>
                 \/ /\ ~InBounds(x, i) \/ ~InBounds(out, i - lag)
                    /\ Segfault
                    /\ UNCHANGED <<i, out, warnings>>
         ELSE /\ Access(~InBounds(x, i) \/ ~InBounds(x, i - lag),
                        ~InBounds(out, i - lag))
              /\ \/ /\ \E b \in Load(x, i - lag) :
                         out' = diffC_assign(out, i, lag, a, b)
                    /\ i' = i + 1
                    /\ UNCHANGED <<pc, ret, warnings>>
                 \/ /\ \/ ~InBounds(x, i)
                       \/ ~InBounds(x, i - lag)
                       \/ ~InBounds(out, i - lag)
                    /\ Segfault
                    /\ UNCHANGED <<i, out, warnings>>
  /\ UNCHANGED <<kernel, x, lag, na_rm, omin, omax, mx, outd, negAlloc>>

diffC_na_return == DiffReturn("diffC_na")

DiffNext ==
  \/ diffC_lagOne_entry \/ diffC_lagOne_loop \/ diffC_lagOne_return
  \/ diffC_lagN_entry \/ diffC_lagN_loop \/ diffC_lagN_return
  \/ diffC_na_entry \/ diffC_na_loop \/ diffC_na_return

(* ------------------------------- rangeC -------------------------------- *)
\* double omin = x[0], omax = x[0]; n = x.size(); if (n == 0) stop(...);
RangeEntry(name, first) ==
  /\ pc = "entry" /\ kernel = name
  /\ Access(~InBounds(x, 0), FALSE)
  /\ \/ /\ \E v \in Load(x, 0) : omin' = v /\ omax' = v
        /\ IF Len(x) = 0
             THEN /\ stop(EmptyInput)
                  /\ UNCHANGED i
             ELSE /\ i' = first
                  /\ pc' = "loop"
                  /\ UNCHANGED ret
     \/ /\ ~InBounds(x, 0)
        /\ Segfault
        /\ UNCHANGED <<i, omin, omax>>
  /\ UNCHANGED <<kernel, x, lag, na_rm, out, mx, outd, warnings, oobWrite, negAlloc>>

\* NumericVector out(2); out[0] = omin; out[1] = omax; return out;
RangeReturn(name) ==
  /\ pc = "loop" /\ kernel = name
  /\ ~(i < Len(x))
  /\ out' = Store(Store(NumericVector(2), 0, omin), 1, omax)
  /\ Returns(out')
  /\ UNCHANGED <<kernel, x, lag, na_rm, i, omin, omax, mx, outd,
                 warnings, oobRead, oobWrite, negAlloc>>

\* slip: the maximum is not updated
rangeC_update_nomax(v, mn, mxm) == <<StdMin(v, mn), mxm>>

\* omin = std::min(x[i], omin); omax = std::max(x[i], omax);
rangeC_update(v, mn, mxm) == <<StdMin(v, mn), StdMax(v, mxm)>>

rangeC_entry == RangeEntry("rangeC", 1)

rangeC_loop ==
  /\ pc = "loop" /\ kernel = "rangeC"
  /\ i < Len(x)
  /\ omin' = rangeC_update(x[i + 1], omin, omax)[1]
  /\ omax' = rangeC_update(x[i + 1], omin, omax)[2]
  /\ i' = i + 1
  /\ UNCHANGED <<kernel, x, lag, na_rm, pc, out, mx, outd, ret,
                 warnings, oobRead, oobWrite, negAlloc>>

rangeC_return == RangeReturn("rangeC")

(* ------------------------------ na_rangeC ------------------------------ *)
na_rangeC_entry == RangeEntry("na_rangeC", 0)

\* slip: the missing test leaves out element 0
na_rangeC_skips_from1(xs, k, rm) == rm /\ k > 0 /\ is_na(xs[k + 1])

\* if (na_rm == true && NumericVector::is_na(x[i]))
na_rangeC_skips(xs, k, rm) == rm /\ is_na(xs[k + 1])

\* NumericVector out_na(1); out_na = NA_REAL; return out_na;  (no warning)
na_rangeC_loop ==
  /\ pc = "loop" /\ kernel = "na_rangeC"
  /\ i < Len(x)
  /\ IF na_rangeC_skips(x, i, na_rm)
       THEN /\ out' = Store(NumericVector(1), 0, NA_REAL)
            /\ Returns(out')
            /\ UNCHANGED <<i, omin, omax>>
       ELSE /\ omin' = rangeC_update(x[i + 1], omin, omax)[1]
            /\ omax' = rangeC_update(x[i + 1], omin, omax)[2]
            /\ i' = i + 1
            /\ UNCHANGED <<pc, out, ret>>
  /\ UNCHANGED <<kernel, x, lag, na_rm, mx, outd,
                 warnings, oobRead, oobWrite, negAlloc>>

na_rangeC_return == RangeReturn("na_rangeC")

RangeNext ==
  \/ rangeC_entry \/ rangeC_loop \/ rangeC_return
  \/ na_rangeC_entry \/ na_rangeC_loop \/ na_rangeC_return

(* -------------------------------- varC --------------------------------- *)
\* if (n < 2) return NA_REAL;  double mx = 0;
varC_entry ==
  /\ pc = "entry" /\ kernel = "varC"
  /\ IF Len(x) < 2
       THEN /\ ReturnsDouble(NA_REAL)
            /\ UNCHANGED <<i, mx>>
       ELSE /\ mx' = Num(0)
            /\ i' = 0
            /\ pc' = "mean"
            /\ UNCHANGED ret
  /\ UNCHANGED <<kernel, x, lag, na_rm, out, omin, omax, outd,
                 warnings, oobRead, oobWrite, negAlloc>>

\* mx += x[i] / n;
varC_mean_term(xi, n) == DDivInt(xi, n)

varC_mean ==
  /\ pc = "mean" /\ kernel = "varC"
  /\ i < Len(x)
  /\ mx' = DAdd(mx, varC_mean_term(x[i + 1], Len(x)))
  /\ i' = i + 1
  /\ UNCHANGED <<kernel, x, lag, na_rm, pc, out, omin, omax, outd, ret,
                 warnings, oobRead, oobWrite, negAlloc>>

\* double out = 0;
varC_between ==
  /\ pc = "mean" /\ kernel = "varC"
  /\ ~(i < Len(x))
  /\ outd' = Num(0)
  /\ i' = 0
  /\ pc' = "dev"
  /\ UNCHANGED <<kernel, x, lag, na_rm, out, omin, omax, mx, ret,
                 warnings, oobRead, oobWrite, negAlloc>>

\* out += pow(x[i] - mx, 2);
varC_dev ==
  /\ pc = "dev" /\ kernel = "varC"
  /\ i < Len(x)
  /\ outd' = DAdd(outd, Pow2(DSub(x[i + 1], mx)))
  /\ i' = i + 1
  /\ UNCHANGED <<kernel, x, lag, na_rm, pc, out, omin, omax, mx, ret,
                 warnings, oobRead, oobWrite, negAlloc>>

\* slip: divides by n, not n - 1
varC_result_population(sq, n) == DDivInt(sq, n)

\* return out / (n - 1);
varC_result(sq, n) == DDivInt(sq, n - 1)

varC_return ==
  /\ pc = "dev" /\ kernel = "varC"
  /\ ~(i < Len(x))
  /\ ReturnsDouble(varC_result(outd, Len(x)))
  /\ UNCHANGED <<kernel, x, lag, na_rm, i, out, omin, omax, mx, outd,
                 warnings, oobRead, oobWrite, negAlloc>>

VarNext ==
  \/ varC_entry \/ varC_mean \/ varC_between \/ varC_dev \/ varC_return

Next == CumNext \/ DiffNext \/ RangeNext \/ VarNext

Spec == Init /\ [][Next]_vars

(* ============================ properties =============================== *)
Done == pc = "done"

N == Len(x)

Vec(v) == Ret("vector", v, "")

AnyMissing(xs) == \E k \in 1..Len(xs) : is_na(xs[k])

\* numeric order on non-missing doubles
Leq(a, b) == a.num * b.den <= b.num * a.den

MathMax(a, b) == IF a.na \/ b.na THEN a ELSE IF Leq(b, a) THEN a ELSE b

MathMin(a, b) == IF a.na \/ b.na THEN a ELSE IF Leq(a, b) THEN a ELSE b

SeqMin(xs) == CHOOSE m \in {xs[k] : k \in 1..Len(xs)} :
                \A k \in 1..Len(xs) : Leq(m, xs[k])

SeqMax(xs) == CHOOSE m \in {xs[k] : k \in 1..Len(xs)} :
                \A k \in 1..Len(xs) : Leq(xs[k], m)

Combine(name, a, b) ==
  CASE name = "cummaxC" -> MathMax(a, b)
    [] name = "cumminC" -> MathMin(a, b)
    [] name = "cumprodC" -> DMul(a, b)
    [] name = "cumsumC" -> DAdd(a, b)

\* C1: for a non-empty x, cummax, cummin, cumprod and cumsum without
\* skip_missing return a vector of the length of x whose first element is
\* x[0] and whose element i >= 1 is op(out[i-1], x[i]), op being max, min,
\* * and + respectively.
C1_CumulativeRecurrence ==
  (Done /\ kernel \in Cumulative /\ N >= 1 /\ (kernel = "cumsumC" => ~na_rm)) =>
    /\ ret.kind = "vector"
    /\ Len(ret.value) = N
    /\ ret.value[1] = x[1]
    /\ \A k \in 2..N : ret.value[k] = Combine(kernel, ret.value[k - 1], x[k])

C1_Witness ==
  /\ Done /\ kernel = "cumprodC"
  /\ x = <<Num(-1), Num(-1), Num(-1)>>
  /\ ret = Vec(<<Num(-1), Num(1), Num(-1)>>)

RECURSIVE SumNonMissing(_, _)
SumNonMissing(xs, k) ==
  IF k = 0 THEN Num(0)
  ELSE IF is_na(xs[k]) THEN SumNonMissing(xs, k - 1)
  ELSE DAdd(SumNonMissing(xs, k - 1), xs[k])

\* C2: cumsum with skip_missing enabled gives the missing marker at each
\* missing position and, at every later non-missing position i, the sum of
\* the non-missing elements of x[0..i]: cumsum([1, NA, 3], TRUE) = [1, NA, 4].
C2_CarriesRunningTotal ==
  (Done /\ kernel = "cumsumC" /\ na_rm /\ N >= 1) =>
    /\ ret.kind = "vector"
    /\ Len(ret.value) = N
    /\ \A k \in 1..N :
         ret.value[k] = IF is_na(x[k]) THEN NA_REAL ELSE SumNonMissing(x, k)

DiffKernels == {"diffC_lagOne", "diffC_lagN", "diffC_na"}

\* the lag of the call: the fixed-lag kernel has no parameter, its lag is 1
Lag == IF kernel = "diffC_lagOne" THEN 1 ELSE lag

\* C3: every lagged-difference kernel called with lag >= length(x) fails
\* with InvalidArgument and produces no output, for every length,
\* 0 and 1 included.
C3_LagTooLargeFails ==
  (Done /\ kernel \in DiffKernels /\ Lag >= N) =>
    /\ ret = Ret("stop", <<>>, InvalidArgument)
    /\ out = <<>>

\* C4: for 1 <= lag < length(x) the lagged difference has length
\* length(x) - lag and output[i] = x[i+lag] - x[i]; with skip_missing the
\* output is the missing marker where x[i+lag] is missing, and only a missing
\* later element is tested (one warning per missing later element, none for
\* a missing earlier element).
C4_LaggedDifference ==
  (Done /\ kernel \in DiffKernels /\ 1 <= Lag /\ Lag < N) =>
    /\ ret.kind = "vector"
    /\ Len(ret.value) = N - Lag
    /\ \A k \in 0..(N - Lag - 1) :
         ret.value[k + 1] =
           IF kernel = "diffC_na" /\ na_rm /\ is_na(x[k + Lag + 1])
             THEN NA_REAL
             ELSE DSub(x[k + Lag + 1], x[k + 1])
    /\ warnings = IF kernel = "diffC_na" /\ na_rm
                    THEN Cardinality({k \in (Lag + 1)..N : is_na(x[k])})
                    ELSE 0

C4_Witness ==
  /\ Done /\ kernel = "diffC_na" /\ na_rm /\ lag = 2
  /\ x = <<NA_REAL, Num(1), Num(-1)>>
  /\ ret = Vec(<<NA_REAL>>)
  /\ warnings = 0

\* C5: range and range-with-skip on a zero-length input fail with
\* EmptyInput, immediately and without any result.
C5_EmptyRangeFails ==
  (Done /\ kernel \in {"rangeC", "na_rangeC"} /\ N = 0) =>
    /\ ret = Ret("stop", <<>>, EmptyInput)
    /\ out = <<>>

\* C6: with skip_missing enabled, range-with-skip returns the one-element
\* missing result whenever an element of x is missing, at any position, and
\* the pair (min, max) only when no element is missing.
C6_RangeSkipShortCircuit ==
  (Done /\ kernel = "na_rangeC" /\ na_rm) =>
    /\ AnyMissing(x) => ret = Vec(<<NA_REAL>>)
    /\ (N >= 1 /\ ~AnyMissing(x)) => ret = Vec(<<SeqMin(x), SeqMax(x)>>)
    /\ (ret.kind = "vector" /\ Len(ret.value) = 2) => ~AnyMissing(x)

C6_Witness ==
  /\ Done /\ kernel = "na_rangeC" /\ na_rm
  /\ x = <<NA_REAL, Num(1), Num(0)>>
  /\ ret = Vec(<<NA_REAL>>)

\* the skip-missing branch of the call is taken on some element
Triggered ==
  CASE kernel = "cumsumC" -> \E k \in 2..N : is_na(x[k])
    [] kernel = "diffC_na" -> \E k \in (Lag + 1)..N : is_na(x[k])
    [] kernel = "na_rangeC" -> AnyMissing(x)
    [] OTHER -> FALSE

\* C7: in every missing-aware kernel called with skip_missing enabled, when
\* the policy triggers on an element the call signals a non-fatal warning
\* and still completes with its value.
C7_SkipSignalsWarning ==
  (Done /\ kernel \in HasNaRm /\ na_rm /\ N >= 1
        /\ (kernel = "diffC_na" => (1 <= Lag /\ Lag < N)) /\ Triggered) =>
    /\ warnings >= 1
    /\ ret.kind = "vector"

\* C8: for a non-empty x without missing values, range returns the pair
\* (min(x), max(x)), and range-with-skip with skip_missing disabled returns
\* the same pair.
C8_RangeIsMinMax ==
  (Done /\ N >= 1 /\ ~AnyMissing(x)
        /\ (kernel = "rangeC" \/ (kernel = "na_rangeC" /\ ~na_rm))) =>
    ret = Vec(<<SeqMin(x), SeqMax(x)>>)

C8_Witness ==
  /\ Done /\ kernel = "rangeC"
  /\ x = <<Num(0), Num(1), Num(-1)>>
  /\ ret = Vec(<<Num(-1), Num(1)>>)

RECURSIVE IntSum(_, _)
IntSum(f, k) == IF k = 0 THEN 0 ELSE IntSum(f, k - 1) + f[k]

\* sum of (x[k] - S/n)^2 over n - 1, for integer-valued x: the deviations
\* are (n*x[k] - S)/n
SampleVariance(xs) ==
  LET n == Len(xs)
      S == IntSum([k \in 1..n |-> xs[k].num], n)
      Q == IntSum([k \in 1..n |-> (n * xs[k].num - S) * (n * xs[k].num - S)], n)
  IN  IF AnyMissing(xs) THEN NA_REAL ELSE Norm(Q, n * n * (n - 1))

Mean(xs) ==
  LET n == Len(xs)
  IN  IF AnyMissing(xs) THEN NA_REAL
      ELSE Norm(IntSum([k \in 1..n |-> xs[k].num], n), n)

\* C9: variance returns the not-a-number sentinel, as a value, for length 0
\* or 1, and for n >= 2 the sum of squared deviations from the mean divided
\* by n - 1, the mean being the sum of the x[i]/n.
C9_SampleVariance ==
  (Done /\ kernel = "varC") =>
    /\ ret.kind = "double"
    /\ N < 2 => ret.value = <<NA_REAL>>
    /\ N >= 2 => (ret.value = <<SampleVariance(x)>> /\ mx = Mean(x))

C9_Witness ==
  /\ Done /\ kernel = "varC"
  /\ x = <<Num(1), Num(0), Num(0)>>
  /\ ret.value = <<Norm(1, 3)>>

\* C10: for every kernel, length and lag, every read of the input and every
\* write of the output is inside the vector and no negative length is
\* requested.
C10_AccessesInBounds == ~oobRead /\ ~oobWrite /\ ~negAlloc
====
